---- MODULE Spec2Model ----
(***************************************************************************)
(* The CoAP Block option value (src/block_handler/block_value.rs): the     *)
(* validated constructor, the power-of-two search, the size accessor and   *)
(* the conversions to and from the wire bytes.                             *)
(*                                                                         *)
(* Representation of machine integers.  usize and u32 values reach 2^64-1  *)
(* and 2^32-1, so an unsigned machine integer is modelled by the set of    *)
(* the positions of its 1 bits (5 is {0, 2}, 0 is {}): << and >> move the  *)
(* positions and drop those that leave the word, | is union, & is          *)
(* intersection, and a > b compares the highest bit in which a and b       *)
(* differ.  Small quantities (exponents, u8 values, bytes, lengths) are    *)
(* plain naturals.                                                         *)
(***************************************************************************)
EXTENDS Integers, Sequences, FiniteSets, TLC

VARIABLES bits, held, hist

vars == <<bits, held, hist>>

-----------------------------------------------------------------------------
(* Bounds of the model *)

\* longest lineage of calls on one item
MaxCalls == 4
\* sizes and targets 0..MaxSmallSize are all tried, beyond that only the edges
MaxSmallSize == 70
\* longest byte sequence received from the wire
MaxWireLen == 5

-----------------------------------------------------------------------------
(* Machine integers as sets of bit positions *)

\* usize::BITS of the platforms Rust supports
PlatformBits == {16, 32, 64}

U32_BITS == 32

U8_MAX == 255

FromNat(n) == {i \in 0..30 : (n \div (2^i)) % 2 = 1}

RECURSIVE ToNat(_)
ToNat(s) == IF s = {} THEN 0
            ELSE LET i == CHOOSE x \in s : TRUE IN (2^i) + ToNat(s \ {i})

MaxOf(S) == CHOOSE x \in S : \A y \in S : y <= x

MinOf(S) == CHOOSE x \in S : \A y \in S : x <= y

\* a << k in a word of w bits: the bits shifted out are lost
Shl(a, k, w) == {i + k : i \in a} \cap (0..(w - 1))

\* a >> k
Shr(a, k) == {i - k : i \in {j \in a : j >= k}}

BitOr(a, b) == a \cup b

BitAnd(a, b) == a \cap b

\* a > b, unsigned
Gt(a, b) == \E i \in a \ b : \A j \in b \ a : j < i

\* u32::try_from(usize) succeeds
FitsU32(a) == a \subseteq (0..(U32_BITS - 1))

-----------------------------------------------------------------------------
(* Option, Result and the error values *)

None == [some |-> FALSE]

Some(x) == [some |-> TRUE, val |-> x]

Ok(x) == [ok |-> TRUE, v |-> x]

Err(e) == [ok |-> FALSE, err |-> e]

SizeExponentEncodingError(size) == [tag |-> "SizeExponentEncodingError", size |-> size]

TypeBoundsError == [tag |-> "TypeBoundsError"]

MaximumNumberExceeded(num) == [tag |-> "MaximumNumberExceeded", num |-> num]

IncompatibleOptionValueFormat == [tag |-> "IncompatibleOptionValueFormat"]

BlockValue(num, more, size_exponent) ==
    [num |-> num, more |-> more, size_exponent |-> size_exponent]

\* 2^20 - 1
MAX_BLOCK_NUMBER == FromNat(1048575)

-----------------------------------------------------------------------------
(* BlockValue::largest_power_of_2_not_in_excess *)

largest_power_of_2_not_in_excess(target) ==
    IF target = {} THEN None
    ELSE LET max_power == bits
             power_in_excess ==
                 {i \in 0..(max_power - 1) : Gt(Shl({0}, i, bits), target)}
         IN  IF power_in_excess # {}
             THEN Some(MinOf(power_in_excess) - 1)
             ELSE Some(max_power)

(* BlockValue::new *)

saturating_sub(a, b) == IF a >= b THEN a - b ELSE 0

\* Faulty variant of new: num is validated before size.
BlockValueNew_NumFirst(num, more, size) ==
    LET found == largest_power_of_2_not_in_excess(size) IN
    IF ~FitsU32(num) THEN Err(TypeBoundsError)
    ELSE IF Gt(num, MAX_BLOCK_NUMBER) THEN Err(MaximumNumberExceeded(num))
    ELSE IF ~found.some THEN Err(SizeExponentEncodingError(size))
    ELSE LET size_exponent == saturating_sub(found.val, 4) IN
         IF size_exponent > U8_MAX THEN Err(TypeBoundsError)
         ELSE IF size_exponent > 7 THEN Err(SizeExponentEncodingError(size))
         ELSE Ok(BlockValue(num, more, size_exponent))

\* Faulty variant of new: num >= MAX_BLOCK_NUMBER is rejected.
BlockValueNew_InclusiveMax(num, more, size) ==
    LET found == largest_power_of_2_not_in_excess(size) IN
    IF ~found.some THEN Err(SizeExponentEncodingError(size))
    ELSE LET size_exponent == saturating_sub(found.val, 4) IN
         IF size_exponent > U8_MAX THEN Err(TypeBoundsError)
         ELSE IF size_exponent > 7 THEN Err(SizeExponentEncodingError(size))
         ELSE IF ~FitsU32(num) THEN Err(TypeBoundsError)
         ELSE IF ~Gt(MAX_BLOCK_NUMBER, num) THEN Err(MaximumNumberExceeded(num))
         ELSE Ok(BlockValue(num, more, size_exponent))

BlockValueNew(num, more, size) ==
    LET found == largest_power_of_2_not_in_excess(size) IN
    IF ~found.some THEN Err(SizeExponentEncodingError(size))
    ELSE LET size_exponent == saturating_sub(found.val, 4) IN
         IF size_exponent > U8_MAX THEN Err(TypeBoundsError)
         ELSE IF size_exponent > 7 THEN Err(SizeExponentEncodingError(size))
         ELSE IF ~FitsU32(num) THEN Err(TypeBoundsError)
         ELSE IF Gt(num, MAX_BLOCK_NUMBER) THEN Err(MaximumNumberExceeded(num))
         ELSE Ok(BlockValue(num, more, size_exponent))

\* Faulty variant of size: 1 << (size_exponent + 3).
SizeOutcomes_ShiftThree(v) ==
    {[panic |-> FALSE, val |-> Shl({0}, v.size_exponent + 3, bits)]}

(* BlockValue::size: 1 << (size_exponent + 4).  The u8 addition and the    *)
(* shift overflow when the sum passes 255 or reaches the word width; a     *)
(* build with overflow checks panics there, one without wraps the sum and  *)
(* masks the shift amount.                                                 *)

SizeOutcomes(v) ==
    LET sum == v.size_exponent + 4 IN
    IF sum <= U8_MAX /\ sum < bits
    THEN {[panic |-> FALSE, val |-> Shl({0}, sum, bits)]}
    ELSE {[panic |-> TRUE, val |-> {}],
          [panic |-> FALSE, val |-> Shl({0}, (sum % (U8_MAX + 1)) % bits, bits)]}

-----------------------------------------------------------------------------
(* The scalar codec, OptionValueU32 *)

ByteOf(s, k) == ToNat({i \in 0..7 : (8 * k + i) \in s})

\* Vec::from(OptionValueU32(scalar)): minimal big-endian bytes
EncodeInteger(scalar) ==
    LET n == IF scalar = {} THEN 0 ELSE (MaxOf(scalar) \div 8) + 1
    IN  [j \in 1..n |-> ByteOf(scalar, n - j)]

\* OptionValueU32::try_from(bytes)
DecodeInteger(bytes) ==
    IF Len(bytes) > 4 THEN Err(IncompatibleOptionValueFormat)
    ELSE Ok(UNION {{8 * (Len(bytes) - j) + i : i \in FromNat(bytes[j])} :
                   j \in 1..Len(bytes)})

\* Faulty variant of the encoder: num << 3.
IntoBytes_ShiftThree(block_value) ==
    EncodeInteger(
        BitOr(BitOr(Shl(block_value.num, 3, U32_BITS),
                    Shl(IF block_value.more THEN {0} ELSE {}, 3, U32_BITS)),
              FromNat(block_value.size_exponent % 8)))

\* Faulty variant of the encoder: more << 4.
IntoBytes_MoreBitFour(block_value) ==
    EncodeInteger(
        BitOr(BitOr(Shl(block_value.num, 4, U32_BITS),
                    Shl(IF block_value.more THEN {0} ELSE {}, 4, U32_BITS)),
              FromNat(block_value.size_exponent % 8)))

\* Faulty variant of the encoder: (num & 0xFFFFF) << 4.
IntoBytes_TruncatedNum(block_value) ==
    EncodeInteger(
        BitOr(BitOr(Shl(BitAnd(block_value.num, MAX_BLOCK_NUMBER), 4, U32_BITS),
                    Shl(IF block_value.more THEN {0} ELSE {}, 3, U32_BITS)),
              FromNat(block_value.size_exponent % 8)))

(* impl From<BlockValue> for Vec<u8> *)

IntoBytes(block_value) ==
    LET scalar ==
          BitOr(BitOr(Shl(block_value.num, 4, U32_BITS),
                      Shl(IF block_value.more THEN {0} ELSE {}, 3, U32_BITS)),
                FromNat(block_value.size_exponent % 8))
    IN  EncodeInteger(scalar)

\* Faulty variant of the decoder: size_exponent = scalar & 0xF.
TryFromBytes_WideExponent(value) ==
    LET decoded == DecodeInteger(value) IN
    IF ~decoded.ok THEN decoded
    ELSE Ok(BlockValue(Shr(decoded.v, 4),
                       BitAnd(Shr(decoded.v, 3), {0}) = {0},
                       ToNat(BitAnd(decoded.v, {0, 1, 2, 3}))))

\* Faulty variant of the decoder: more = scalar >> 4 & 0x1 == 0x1.
TryFromBytes_MoreBitFour(value) ==
    LET decoded == DecodeInteger(value) IN
    IF ~decoded.ok THEN decoded
    ELSE Ok(BlockValue(Shr(decoded.v, 4),
                       BitAnd(Shr(decoded.v, 4), {0}) = {0},
                       ToNat(BitAnd(decoded.v, {0, 1, 2}))))

(* impl TryFrom<Vec<u8>> for BlockValue *)

TryFromBytes(value) ==
    LET decoded == DecodeInteger(value) IN
    IF ~decoded.ok THEN decoded
    ELSE LET scalar == decoded.v
             num == Shr(scalar, 4)
             more == BitAnd(Shr(scalar, 3), {0}) = {0}
             size_exponent == ToNat(BitAnd(scalar, {0, 1, 2}))
         IN  Ok(BlockValue(num, more, size_exponent))

-----------------------------------------------------------------------------
(* Inputs the callers supply *)

\* the values around 2^k: 2^k, 2^k + 1, 2^k - 1 and 2^k + 2^(k-1)
Around(k) == {{k}, {0, k}, 0..(k - 1), {j \in {k - 1, k} : j >= 0}}

IsUsize(a) == a \subseteq (0..(bits - 1))

UsizeEdges == {a \in UNION {Around(k) : k \in 0..bits} : IsUsize(a)}

SizeChoices ==
    UsizeEdges \cup {FromNat(n) : n \in 0..MaxSmallSize} \cup {FromNat(1158)}

NumChoices ==
    {a \in UNION {Around(k) : k \in {0, 12, 20, 28, 32, bits}} : IsUsize(a)}

ByteChoices == {0, 1, 8, 16, 246, 255}

RECURSIVE SeqsUpTo(_)
SeqsUpTo(n) ==
    IF n = 0 THEN {<<>>}
    ELSE LET shorter == SeqsUpTo(n - 1)
         IN  shorter \cup
             {Append(s, b) : s \in {t \in shorter : Len(t) = n - 1},
                             b \in ByteChoices}

WireChoices == SeqsUpTo(MaxWireLen)

-----------------------------------------------------------------------------
(* The caller.  It owns at most one item, a BlockValue, a byte vector or an *)
(* error; hist is the lineage of calls that led to the item.  Both         *)
(* conversions consume their argument, size borrows it.                    *)

Nothing == [kind |-> "none"]

HeldValue(v) == [kind |-> "value", v |-> v]

HeldBytes(b) == [kind |-> "bytes", b |-> b]

HeldError(e) == [kind |-> "error", err |-> e]

HeldResult(r) == IF r.ok THEN HeldValue(r.v) ELSE HeldError(r.err)

Call(op, in, out) == [op |-> op, in |-> in, out |-> out]

Init ==
    /\ bits \in PlatformBits
    /\ held = Nothing
    /\ hist = <<>>

Idle == held = Nothing /\ hist = <<>>

New ==
    /\ Idle
    /\ \E num \in NumChoices, more \in BOOLEAN, size \in SizeChoices :
           LET r == BlockValueNew(num, more, size) IN
           /\ held' = HeldResult(r)
           /\ hist' = <<Call("new", [num |-> num, more |-> more, size |-> size], r)>>
           /\ UNCHANGED bits

LargestPower ==
    /\ Idle
    /\ \E target \in SizeChoices :
           /\ held' = Nothing
           /\ hist' = <<Call("largest_power_of_2_not_in_excess", target,
                             largest_power_of_2_not_in_excess(target))>>
           /\ UNCHANGED bits

Receive ==
    /\ Idle
    /\ \E b \in WireChoices :
           /\ held' = HeldBytes(b)
           /\ hist' = <<>>
           /\ UNCHANGED bits

\* the item is dropped and the caller starts afresh
Drop ==
    /\ ~Idle
    /\ held' = Nothing
    /\ hist' = <<>>
    /\ UNCHANGED bits

Size ==
    /\ held.kind = "value"
    /\ Len(hist) < MaxCalls
    /\ \E r \in SizeOutcomes(held.v) :
           hist' = Append(hist, Call("size", held.v, r))
    /\ UNCHANGED <<bits, held>>

Encode ==
    /\ held.kind = "value"
    /\ Len(hist) < MaxCalls
    /\ LET b == IntoBytes(held.v) IN
       /\ held' = HeldBytes(b)
       /\ hist' = Append(hist, Call("into", held.v, b))
    /\ UNCHANGED bits

Decode ==
    /\ held.kind = "bytes"
    /\ Len(hist) < MaxCalls
    /\ LET r == TryFromBytes(held.b) IN
       /\ held' = HeldResult(r)
       /\ hist' = Append(hist, Call("try_from", held.b, r))
    /\ UNCHANGED bits

Next == New \/ LargestPower \/ Receive \/ Drop \/ Size \/ Encode \/ Decode

Spec == Init /\ [][Next]_vars

TypeOK ==
    /\ bits \in PlatformBits
    /\ held.kind \in {"none", "value", "bytes", "error"}
    /\ Len(hist) <= MaxCalls

-----------------------------------------------------------------------------
(* Arithmetic reading of the values, used to state the properties *)

\* num <= 1048575: no bit beyond the 20 low ones
NumLeMax(num) == num \subseteq (0..19)

\* size = 0 or size >= 4096
SizeZeroOrTooLarge(size) == size = {} \/ \E i \in size : i >= 12

\* floor(log2(n)) for 0 < n < 2^30
Log2Floor(n) == CHOOSE e \in 0..29 : (2^e) <= n /\ n < 2^(e + 1)

\* the big-endian value of at most 3 bytes
RECURSIVE BigEndian(_)
BigEndian(b) ==
    IF b = <<>> THEN 0
    ELSE 256 * BigEndian(SubSeq(b, 1, Len(b) - 1)) + b[Len(b)]

\* the big-endian value of at most 4 bytes, divided by 16
RECURSIVE BigEndianDiv16(_)
BigEndianDiv16(b) ==
    IF b = <<>> THEN 0
    ELSE 16 * BigEndian(SubSeq(b, 1, Len(b) - 1)) + (b[Len(b)] \div 16)

LastByte(b) == IF b = <<>> THEN 0 ELSE b[Len(b)]

RECURSIVE StripLeadingZeros(_)
StripLeadingZeros(b) ==
    IF b # <<>> /\ b[1] = 0 THEN StripLeadingZeros(Tail(b)) ELSE b

\* the lineage starts with a call of new
StartsWithNew == hist # <<>> /\ hist[1].op = "new"

\* call i of the lineage consumes or borrows the value new returned
OnNewValue(i) == StartsWithNew /\ hist[1].out.ok /\ hist[i].in = hist[1].out.v

-----------------------------------------------------------------------------
(* Properties *)

\* C1: a value returned by new, converted to wire bytes and decoded again,
\* comes back equal in num, more and size_exponent.
RoundTrip ==
    \A i \in 1..(Len(hist) - 1) :
        (hist[i].op = "into" /\ OnNewValue(i) /\ hist[i + 1].op = "try_from")
        => /\ hist[i + 1].in = hist[i].out
           /\ hist[i + 1].out = Ok(hist[1].out.v)

RoundTripWitness ==
    /\ Len(hist) >= 3
    /\ hist[2].op = "into" /\ OnNewValue(2)
    /\ hist[3].op = "try_from"
    /\ hist[1].out.v = BlockValue(0..19, TRUE, 7)
    /\ held = HeldValue(hist[1].out.v)

\* C2: new fails with SizeExponentEncodingError(size) exactly when size = 0
\* or size >= 4096, whatever num is; for a size in 1..4095 and num <= 1048575
\* it succeeds with size_exponent = max(floor(log2(size)) - 4, 0).
NewSizeValidation ==
    StartsWithNew =>
        LET a == hist[1].in
            r == hist[1].out
        IN  /\ (r = Err(SizeExponentEncodingError(a.size)))
                   <=> SizeZeroOrTooLarge(a.size)
            /\ (~r.ok /\ r.err.tag = "SizeExponentEncodingError")
                   => r.err.size = a.size
            /\ (~SizeZeroOrTooLarge(a.size) /\ NumLeMax(a.num))
                   => /\ r.ok
                      /\ LET e == Log2Floor(ToNat(a.size))
                         IN  r.v.size_exponent = IF e >= 4 THEN e - 4 ELSE 0
            /\ (a.size = FromNat(1158) /\ NumLeMax(a.num))
                   => r.ok /\ r.v.size_exponent = 6
            /\ (a.size = FromNat(256) /\ NumLeMax(a.num))
                   => r.ok /\ r.v.size_exponent = 4
            /\ (a.size \in {FromNat(n) : n \in 1..15} /\ NumLeMax(a.num))
                   => r.ok /\ r.v.size_exponent = 0

NewSizeValidationWitness ==
    /\ StartsWithNew
    /\ hist[1].in.size = FromNat(4096)
    /\ ~NumLeMax(hist[1].in.num)
    /\ hist[1].out = Err(SizeExponentEncodingError(FromNat(4096)))
    /\ held.kind = "error"

\* C3: for a size in 1..4095, new keeps num and more when num <= 1048575,
\* fails with MaximumNumberExceeded(num) when num is larger and fits in 32
\* bits, and fails with TypeBoundsError when num does not fit in 32 bits.
NewNumBoundary ==
    (StartsWithNew /\ ~SizeZeroOrTooLarge(hist[1].in.size)) =>
        LET a == hist[1].in
            r == hist[1].out
        IN  /\ NumLeMax(a.num)
                   => r.ok /\ r.v.num = a.num /\ r.v.more = a.more
            /\ (~NumLeMax(a.num) /\ a.num \subseteq (0..31))
                   => r = Err(MaximumNumberExceeded(a.num))
            /\ ~(a.num \subseteq (0..31)) => r = Err(TypeBoundsError)
            /\ (a.num = FromNat(1048575) /\ a.size = FromNat(16)) => r.ok
            /\ (a.num = FromNat(1048576) /\ a.size = FromNat(16))
                   => r = Err(MaximumNumberExceeded(FromNat(1048576)))

NewNumBoundaryWitness ==
    /\ StartsWithNew
    /\ hist[1].in.size = FromNat(16)
    /\ hist[1].in.num = {32}
    /\ hist[1].out = Err(TypeBoundsError)

\* C4: every BlockValue returned by new or by decoding wire bytes has
\* num <= 1048575.
NumInvariant == held.kind = "value" => NumLeMax(held.v.num)

\* C5: the bytes of a value returned by new are the minimal big-endian
\* encoding of (num << 4) | (more ? 8 : 0) | size_exponent: at most 3 bytes,
\* no leading zero byte, nothing for the scalar 0.
WireEncoding ==
    \A i \in 1..Len(hist) :
        (hist[i].op = "into" /\ OnNewValue(i)) =>
            LET v == hist[i].in
                b == hist[i].out
                a == hist[1].in
            IN  /\ Len(b) <= 3
                /\ \A j \in 1..Len(b) : b[j] \in 0..255
                /\ b = <<>> \/ b[1] # 0
                /\ BigEndian(b) = 16 * ToNat(v.num)
                                    + (IF v.more THEN 8 ELSE 0) + v.size_exponent
                /\ (a.num = FromNat(4096) /\ ~a.more /\ a.size = FromNat(1024))
                       => b = <<1, 0, 6>>
                /\ (a.num = FromNat(4095) /\ ~a.more /\ a.size = FromNat(1024))
                       => b = <<255, 246>>

WireEncodingWitness ==
    /\ Len(hist) >= 2
    /\ hist[2].op = "into" /\ OnNewValue(2)
    /\ hist[1].in = [num |-> FromNat(4096), more |-> FALSE, size |-> FromNat(1024)]
    /\ held = HeldBytes(<<1, 0, 6>>)

\* C6: for a value returned by new(num, more, size), size() is
\* 16 << size_exponent, and when size >= 16 it is the largest power of two
\* not exceeding size.
SizeAccessor ==
    \A i \in 1..Len(hist) :
        (hist[i].op = "size" /\ OnNewValue(i)) =>
            LET v == hist[i].in
                r == hist[i].out
                requested == hist[1].in.size
            IN  /\ ~r.panic
                /\ r.val \subseteq (0..29)
                /\ ToNat(r.val) = 16 * (2^(v.size_exponent))
                /\ (\E k \in requested : k >= 4)
                       => /\ requested \subseteq (0..29)
                          /\ ToNat(r.val) <= ToNat(requested)
                          /\ ToNat(requested) < 2 * ToNat(r.val)

SizeAccessorWitness ==
    /\ Len(hist) >= 2
    /\ hist[2].op = "size" /\ OnNewValue(2)
    /\ hist[1].in.size = FromNat(1158)
    /\ hist[2].out = [panic |-> FALSE, val |-> FromNat(1024)]

\* C7: every BlockValue returned by new or by decoding wire bytes has
\* size_exponent <= 7, and size() on it does not overflow and returns one of
\* 16, 32, 64, 128, 256, 512, 1024, 2048.
SizeInvariant ==
    /\ held.kind = "value" => held.v.size_exponent \in 0..7
    /\ \A i \in 1..Len(hist) :
           hist[i].op = "size" =>
               /\ ~hist[i].out.panic
               /\ hist[i].out.val \in {{k} : k \in 4..11}

SizeInvariantWitness ==
    /\ Len(hist) >= 2
    /\ hist[1].op = "try_from"
    /\ hist[2].op = "size"
    /\ hist[2].in.size_exponent = 7
    /\ hist[2].out = [panic |-> FALSE, val |-> FromNat(2048)]

\* C8: decoding at most 4 bytes succeeds with num = scalar >> 4, more = bit 3
\* of the scalar and size_exponent = scalar & 7, the scalar being the
\* big-endian value of the bytes; decoding more than 4 bytes fails with
\* IncompatibleOptionValueFormat and returns no value.
Decoding ==
    \A i \in 1..Len(hist) :
        hist[i].op = "try_from" =>
            LET b == hist[i].in
                r == hist[i].out
            IN  IF Len(b) <= 4
                THEN /\ r.ok
                     /\ r.v.num \subseteq (0..27)
                     /\ ToNat(r.v.num) = BigEndianDiv16(b)
                     /\ r.v.more = ((LastByte(b) \div 8) % 2 = 1)
                     /\ r.v.size_exponent = LastByte(b) % 8
                     /\ i = Len(hist) => held = HeldValue(r.v)
                ELSE /\ r = Err(IncompatibleOptionValueFormat)
                     /\ i = Len(hist) => held.kind = "error"

DecodingWitness ==
    /\ Len(hist) = 1
    /\ hist[1].op = "try_from"
    /\ hist[1].in = <<255, 255, 255, 255>>
    /\ held = HeldValue(BlockValue(0..27, TRUE, 7))

\* C9: largest_power_of_2_not_in_excess(0) is None; for 0 < target < the
\* largest usize it is Some(e) with 2^e <= target < 2^(e+1); Some(bit width)
\* is returned only for the largest usize.
PowerOfTwoSearch ==
    \A i \in 1..Len(hist) :
        hist[i].op = "largest_power_of_2_not_in_excess" =>
            LET target == hist[i].in
                r == hist[i].out
            IN  /\ target = {} => r = None
                /\ (target # {} /\ target # 0..(bits - 1))
                       => /\ r.some
                          /\ r.val \in target
                          /\ \A k \in target : k <= r.val
                /\ r = Some(bits) => target = 0..(bits - 1)
                /\ target = FromNat(256) => r = Some(8)
                /\ target = FromNat(257) => r = Some(8)

\* C10: decoding at most 4 bytes and encoding the decoded value again gives
\* the bytes without their leading zero bytes, also when the decoded num
\* exceeds 1048575.
CanonicalReencoding ==
    \A i \in 1..(Len(hist) - 1) :
        (/\ hist[i].op = "try_from" /\ Len(hist[i].in) <= 4
         /\ hist[i + 1].op = "into")
        => /\ hist[i + 1].in = hist[i].out.v
           /\ hist[i + 1].out = StripLeadingZeros(hist[i].in)

CanonicalReencodingWitness ==
    /\ Len(hist) >= 2
    /\ hist[1].op = "try_from"
    /\ hist[1].in = <<255, 0, 1, 255>>
    /\ ~NumLeMax(hist[1].out.v.num)
    /\ hist[2].op = "into"
    /\ held = HeldBytes(<<255, 0, 1, 255>>)

====
